---- MODULE Spec2Model ----
(***************************************************************************)
(* Metadata capture -> codec -> store pipeline of rkyv-codec.              *)
(*                                                                         *)
(*   Spec          one call of EntryMetaData::new followed by to_bytes and *)
(*                 the archived_root/deserialize of the test, or one call  *)
(*                 of wrappers::getxattr.                                  *)
(*   WriteSpec     concurrent callers of EntryMetaData::write, each caller *)
(*                 a lock owner of its own (a process), plus a foreign     *)
(*                 process that may hold the same advisory lock.           *)
(*   FairWriteSpec WriteSpec with the fairness a running thread has.       *)
(*                                                                         *)
(* Byte strings (OsString, PathBuf, CString, Vec<u8>) are sequences of     *)
(* byte values; Rust Strings that the code writes as literals are TLA+     *)
(* strings.                                                                *)
(***************************************************************************)
EXTENDS Integers, Sequences, FiniteSets, TLC

VARIABLES newIn, newOut, bytesOut, decoded, getIn, getOut,
          pc, wrec, wpath, result, holder, dirExists, fileExists, history

captureVars == <<newIn, newOut, bytesOut, decoded, getIn, getOut>>
writeVars == <<pc, wrec, wpath, result, holder, dirExists, fileExists, history>>
vars == <<newIn, newOut, bytesOut, decoded, getIn, getOut,
          pc, wrec, wpath, result, holder, dirExists, fileExists, history>>

(***************************************************************************)
(* Bounds of the model.                                                    *)
(***************************************************************************)
MaxTime == 2
MaxWriters == 3

(***************************************************************************)
(* errno values the code names or receives from the OS.                    *)
(***************************************************************************)
ENOENT == 2
EIO == 5
EBUSY == 16
EINVAL == 22
ERANGE == 34
ENODATA == 61
PATH_MAX == 4096

Ok(v) == [kind |-> "ok", v |-> v]
Err(code) == [kind |-> "err", code |-> code]
Abort == [kind |-> "abort"]

None == [some |-> FALSE, v |-> <<>>]
Some(v) == [some |-> TRUE, v |-> v]

(***************************************************************************)
(* Byte-string helpers.                                                    *)
(***************************************************************************)
HasNul(bs) == \E i \in 1..Len(bs) : bs[i] = 0

\* OsStr::to_str: Some exactly for valid UTF-8.  The byte strings of the model
\* hold ASCII bytes and the byte 255, which no UTF-8 text contains.
IsUtf8(bs) == \A i \in 1..Len(bs) : bs[i] < 128

Zeros(n) == [i \in 1..n |-> 0]

\* Path::join for a relative name: a separator is added unless parent ends
\* with one.
PathJoin(parent, name) ==
    IF Len(parent) > 0 /\ parent[Len(parent)] = 47
    THEN parent \o name
    ELSE parent \o <<47>> \o name

\* AiFs::highest_path
highest_path(partial) == <<47, 104>> \o partial

\* AiFs::metadir_path
metadir_path(partial) == <<47, 109>> \o partial

\* b"x\0" as a CString: the fixed placeholder credential.
Placeholder == <<120>>

(***************************************************************************)
(* Syscall boundary (wrappers.rs).  attrs is the entry's extended          *)
(* attribute list at the time of the call: a sequence of <<name, value>>.  *)
(***************************************************************************)
RECURSIVE ListBuf(_)
\* What listxattr(2) writes: every name followed by a NUL.
ListBuf(attrs) ==
    IF attrs = <<>> THEN <<>>
    ELSE Head(attrs)[1] \o <<0>> \o ListBuf(Tail(attrs))

\* wrappers::listxattr(path, buf) with buf.len() = cap.
listxattr(path, cap, attrs, sysErr) ==
    IF HasNul(path) THEN Err(EINVAL)
    ELSE IF sysErr THEN Err(EIO)
    ELSE LET names == ListBuf(attrs) IN
         IF cap = 0 THEN [kind |-> "ok", n |-> Len(names), buf |-> <<>>]
         ELSE IF Len(names) > cap THEN Err(ERANGE)
         ELSE [kind |-> "ok", n |-> Len(names),
               buf |-> names \o Zeros(cap - Len(names))]

RECURSIVE CStrBytes(_)
\* CStr::from_ptr(buf).to_bytes(): the bytes before the first NUL.
CStrBytes(bs) ==
    IF bs = <<>> \/ Head(bs) = 0 THEN <<>>
    ELSE <<Head(bs)>> \o CStrBytes(Tail(bs))

AttrValue(attrs, name) ==
    LET i == CHOOSE i \in 1..Len(attrs) : attrs[i][1] = name IN attrs[i][2]

\* wrappers::getxattr(path, name).  The value is read into a zeroed buffer of
\* PATH_MAX bytes and returned as the C string that starts at the buffer.  A
\* value that fills the buffer without a NUL makes CStr::from_ptr read past
\* it (kind "ub").
getxattr(path, name, attrs, sysErr) ==
    IF HasNul(path) \/ HasNul(name) THEN Err(EINVAL)
    ELSE IF sysErr THEN Err(EIO)
    ELSE IF ~ \E i \in 1..Len(attrs) : attrs[i][1] = name THEN Err(ENODATA)
    ELSE LET v == AttrValue(attrs, name) IN
         IF Len(v) > PATH_MAX THEN Err(ERANGE)
         ELSE IF Len(v) = PATH_MAX /\ ~HasNul(v) THEN [kind |-> "ub"]
         ELSE Ok(CStrBytes(v))

(***************************************************************************)
(* Metadata capture (meta.rs, EntryMetaData::new).                         *)
(***************************************************************************)
RECURSIVE SplitNul(_, _)
\* slice::split(|x| *x == 0): the pieces between NULs, separators removed,
\* the piece after the last NUL included.  cur is the piece being read.
SplitNul(bs, cur) ==
    IF bs = <<>> THEN <<cur>>
    ELSE IF Head(bs) = 0 THEN <<cur>> \o SplitNul(Tail(bs), <<>>)
    ELSE SplitNul(Tail(bs), Append(cur, Head(bs)))

\* CString::from_vec_with_nul(v).ok(): Some only when v holds exactly one NUL,
\* as its last byte.
FromVecWithNul(v) ==
    IF Len(v) > 0 /\ v[Len(v)] = 0 /\ ~HasNul(SubSeq(v, 1, Len(v) - 1))
    THEN Some(SubSeq(v, 1, Len(v) - 1))
    ELSE None

RECURSIVE Flatten(_)
\* Iterator::flatten over Option<CString>.
Flatten(opts) ==
    IF opts = <<>> THEN <<>>
    ELSE IF Head(opts).some THEN <<Head(opts).v>> \o Flatten(Tail(opts))
    ELSE Flatten(Tail(opts))

\* Lines 110-130: the probe, the sized listing, the split into names and one
\* getxattr per name.  unwrap_or(0) swallows a failed probe, unwrap() panics
\* on a failed sized listing, unwrap_or(Vec::new()) swallows a failed fetch.
CaptureXattrs(path, in) ==
    LET probe == listxattr(path, 0, in.attrs1, in.probeErr)
        xattrs_len == IF probe.kind = "ok" THEN probe.n ELSE 0
    IN IF xattrs_len > 0
       THEN LET second == listxattr(path, xattrs_len, in.attrs2, in.listErr) IN
            IF second.kind # "ok" THEN Abort
            ELSE LET pieces == SplitNul(second.buf, <<>>)
                     names == Flatten([i \in 1..Len(pieces) |->
                                          FromVecWithNul(pieces[i])])
                     value(x) ==
                         LET g == getxattr(path, x, in.attrs2, in.getErr) IN
                         IF g.kind = "ok" THEN g.v ELSE <<>>
                 IN Ok(Some([i \in 1..Len(names) |->
                                <<names[i], value(names[i])>>]))
       ELSE Ok(None)

\* Lines 88-96: the owner synthesized on a lookup miss.  passwd and gecos are
\* CString::from_raw(null): g is whatever such a value reads as.
UnknownUser(st, g) ==
    [name |-> "unknown", passwd |-> g, uid |-> st.st_uid, gid |-> st.st_gid,
     gecos |-> g, dir |-> <<>>, shell |-> <<>>]

\* Lines 100-105.
UnknownGroup(st, g) ==
    [name |-> "unknown", passwd |-> g, gid |-> st.st_gid, mem |-> <<>>]

OverwritePasswd_keep(ident) == ident

\* Lines 107-108: the credential is overwritten with the placeholder.
OverwritePasswd(ident) == [ident EXCEPT !.passwd = Placeholder]

\* EntryMetaData::new(fs, parent, name) in the environment in.
new(in) ==
    LET path == highest_path(PathJoin(in.parent, in.name)) IN
    IF in.resolve.kind = "err" THEN Err(in.resolve.code)
    ELSE IF in.stat.kind = "err" THEN Err(in.stat.code)
    ELSE IF in.user.kind = "err" THEN Err(in.user.code)
    ELSE IF in.user.kind = "miss" /\ in.ub.abort THEN Abort
    ELSE IF in.group.kind = "err" THEN Err(in.group.code)
    ELSE IF in.group.kind = "miss" /\ in.ub.abort THEN Abort
    ELSE LET st == in.stat.v
             owner == OverwritePasswd(IF in.user.kind = "ok" THEN in.user.v
                                      ELSE UnknownUser(st, in.ub.g))
             group == OverwritePasswd(IF in.group.kind = "ok" THEN in.group.v
                                      ELSE UnknownGroup(st, in.ub.g))
             xa == CaptureXattrs(path, in)
         IN IF xa.kind # "ok" THEN Abort
            ELSE Ok([name |-> in.name, parent |-> in.parent, stats |-> st,
                     owner |-> owner, group |-> group,
                     timestamp |-> in.now, xattrs |-> xa.v])

(***************************************************************************)
(* Structural codec (codec.rs) and to_bytes / deserialize (meta.rs).       *)
(***************************************************************************)
AsString_lossy(os) ==
    [ok |-> TRUE,
     str |-> [i \in 1..Len(os) |-> IF os[i] < 128 THEN os[i] ELSE 63]]

\* rkyv::with::AsString on an OsString or PathBuf: the text of the value, or
\* the AsStringError that CodecSerializerError::AsStringError carries.
AsString(os) ==
    IF IsUtf8(os) THEN [ok |-> TRUE, str |-> os] ELSE [ok |-> FALSE, str |-> <<>>]

\* ArchiveWith of FileStatCodec from FileStat: every field mirrored, the
\* reserved fields written as zero by their getters.
FileStatCodec(st) == [st EXCEPT !.pad0 = 0, !.unused = <<0, 0, 0>>]

\* ArchiveWith of UserCodec from User.
UserCodec(u) ==
    [name |-> u.name, passwd |-> u.passwd, uid |-> u.uid, gid |-> u.gid,
     gecos |-> u.gecos, dir |-> AsString(u.dir), shell |-> AsString(u.shell)]

\* ArchiveWith of GroupCodec from Group.
GroupCodec(g) ==
    [name |-> g.name, passwd |-> g.passwd, gid |-> g.gid, mem |-> g.mem]

\* CodecSerializer::encode: serialize_value(value).unwrap() panics on the
\* first failed text conversion.
encode(rec) ==
    LET n == AsString(rec.name)
        p == AsString(rec.parent)
        o == UserCodec(rec.owner)
    IN IF ~(n.ok /\ p.ok /\ o.dir.ok /\ o.shell.ok) THEN Abort
       ELSE Ok([name |-> n.str, parent |-> p.str,
                stats |-> FileStatCodec(rec.stats),
                owner |-> [o EXCEPT !.dir = o.dir.str, !.shell = o.shell.str],
                group |-> GroupCodec(rec.group),
                timestamp |-> rec.timestamp, xattrs |-> rec.xattrs])

\* EntryMetaData::to_bytes.
to_bytes(rec) == encode(rec)

\* From<FileStatCodec> for libc::stat: a transmute, field for field.
StatFromCodec(c) == c

\* archived_root + ArchivedEntryMetaData::deserialize, as in test_metadata.
deserialize(a) ==
    [name |-> a.name, parent |-> a.parent, stats |-> StatFromCodec(a.stats),
     owner |-> a.owner, group |-> a.group,
     timestamp |-> a.timestamp, xattrs |-> a.xattrs]

(***************************************************************************)
(* Inputs of the capture pipeline.                                         *)
(***************************************************************************)
Names == {<<116>>, <<255>>}
Parents == {<<47>>}
Uids == {1000, 4242}
Gids == {1000}
Credentials == {<<>>, <<120>>, <<36, 54>>}
Garbage == {<<>>, <<63>>}

\* stat(2) fills the whole record, reserved fields zeroed.
KernelStat(uid, gid) ==
    [st_dev |-> 1, st_ino |-> 7, st_nlink |-> 1, st_mode |-> 420,
     st_uid |-> uid, st_gid |-> gid, pad0 |-> 0, st_rdev |-> 0, st_size |-> 0,
     st_blksize |-> 4096, st_blocks |-> 0,
     st_atime |-> 1, st_atime_nsec |-> 0, st_mtime |-> 1, st_mtime_nsec |-> 0,
     st_ctime |-> 1, st_ctime_nsec |-> 0, unused |-> <<0, 0, 0>>]

DbUser(uid, gid, passwd) ==
    [name |-> "masud", passwd |-> passwd, uid |-> uid, gid |-> gid,
     gecos |-> <<109>>, dir |-> <<47, 104>>, shell |-> <<47, 115>>]

DbGroup(gid, passwd) ==
    [name |-> "users", passwd |-> passwd, gid |-> gid, mem |-> <<"masud">>]

AttrLists ==
    { <<>>,
      << <<<<117>>, <<>>>> >>,
      << <<<<117>>, <<1, 0, 2>>>> >>,
      << <<<<117>>, <<7>>>>, <<<<118>>, <<>>>> >> }

StatResults ==
    {Err(ENOENT)} \cup {Ok(KernelStat(u, g)) : u \in Uids, g \in Gids}

UserResults(st) ==
    {Err(EIO), [kind |-> "miss"]}
        \cup {Ok(DbUser(st.st_uid, st.st_gid, c)) : c \in Credentials}

GroupResults(st) ==
    {Err(EIO), [kind |-> "miss"]}
        \cup {Ok(DbGroup(st.st_gid, c)) : c \in {<<120>>, <<36, 54>>}}

UbOutcomes ==
    {[abort |-> TRUE, g |-> <<>>]} \cup {[abort |-> FALSE, g |-> g] : g \in Garbage}

ResolveResults == {Ok(<<>>), Err(ENOENT)}

\* The attribute list may change between the probe and the sized listing.
Grown(attrs) == Append(attrs, <<<<119>>, <<9>>>>)

NoCall == [kind |-> "none"]

(***************************************************************************)
(* Capture pipeline: one public entry point per behaviour.                 *)
(***************************************************************************)
CaptureIdle == newOut.kind = "none" /\ getOut.kind = "none"

\* A caller runs EntryMetaData::new to completion.
New ==
    /\ CaptureIdle
    /\ \E pa \in Parents, na \in Names, rs \in ResolveResults,
          st \in StatResults, ub \in UbOutcomes, a1 \in AttrLists,
          grow \in BOOLEAN, pe \in BOOLEAN, le \in BOOLEAN, ge \in BOOLEAN,
          t \in 1..MaxTime :
         LET ks == IF st.kind = "ok" THEN st.v ELSE KernelStat(0, 0) IN
         \E us \in UserResults(ks), gr \in GroupResults(ks) :
            LET in == [parent |-> pa, name |-> na, resolve |-> rs, stat |-> st,
                       user |-> us, group |-> gr, ub |-> ub, probeErr |-> pe,
                       attrs1 |-> a1,
                       attrs2 |-> IF grow THEN Grown(a1) ELSE a1,
                       listErr |-> le, getErr |-> ge, now |-> t]
            IN /\ newIn' = in
               /\ newOut' = new(in)
    /\ UNCHANGED <<bytesOut, decoded, getIn, getOut>>
    /\ UNCHANGED writeVars

\* The caller encodes the captured record.
ToBytes ==
    /\ newOut.kind = "ok"
    /\ bytesOut.kind = "none"
    /\ bytesOut' = to_bytes(newOut.v)
    /\ UNCHANGED <<newIn, newOut, decoded, getIn, getOut>>
    /\ UNCHANGED writeVars

\* The caller reads the bytes back (test_metadata).
Deserialize ==
    /\ bytesOut.kind = "ok"
    /\ decoded.kind = "none"
    /\ decoded' = Ok(deserialize(bytesOut.v))
    /\ UNCHANGED <<newIn, newOut, bytesOut, getIn, getOut>>
    /\ UNCHANGED writeVars

GetNames == {<<117>>, <<118>>, <<117, 0>>}

\* A caller runs wrappers::getxattr on an entry.
Getxattr ==
    /\ CaptureIdle
    /\ \E a \in AttrLists, n \in GetNames, e \in BOOLEAN :
         /\ getIn' = [attrs |-> a, name |-> n, sysErr |-> e]
         /\ getOut' = getxattr(<<47, 104, 47, 116>>, n, a, e)
    /\ UNCHANGED <<newIn, newOut, bytesOut, decoded>>
    /\ UNCHANGED writeVars

CaptureInit ==
    /\ newIn = NoCall
    /\ newOut = NoCall
    /\ bytesOut = NoCall
    /\ decoded = NoCall
    /\ getIn = NoCall
    /\ getOut = NoCall

(***************************************************************************)
(* Metadata store (meta.rs, EntryMetaData::write).                         *)
(***************************************************************************)
Writers == 1..MaxWriters

\* The records handed to write: two logical paths under "/".
WriteRecords == {[parent |-> <<47>>, name |-> n] : n \in {<<116>>, <<117>>}}

\* Line 160-161: the metadata directory of a record.
MetaDir(rec) == metadir_path(PathJoin(rec.parent, rec.name))

MetaDirs == {MetaDir(r) : r \in WriteRecords}

Free == [kind |-> "free", w |-> 0]
HeldBy(w) == [kind |-> "writer", w |-> w]
Foreign == [kind |-> "foreign", w |-> 0]

LockFree_nonexclusive(d) == TRUE

\* FileLock::lock(&path, true, opts): a blocking exclusive lock is granted
\* only while nobody holds a lock on the file.
LockFree(d) == holder[d] = Free

DropLock_leak(w) == holder

\* _lock goes out of scope: the lock the call holds is released.
DropLock(w) == [d \in MetaDirs |-> IF holder[d] = HeldBy(w) THEN Free ELSE holder[d]]

\* write(self, fs) is called; fs.metadir_path resolves the directory or fails.
WriteCall(w) ==
    /\ pc[w] \in {"idle", "returned"}
    /\ \E rec \in WriteRecords, ok \in BOOLEAN :
         /\ wrec' = [wrec EXCEPT ![w] = rec]
         /\ IF ok
            THEN /\ wpath' = [wpath EXCEPT ![w] = MetaDir(rec)]
                 /\ pc' = [pc EXCEPT ![w] = "mkdir"]
                 /\ result' = [result EXCEPT ![w] = NoCall]
            ELSE /\ wpath' = [wpath EXCEPT ![w] = <<>>]
                 /\ pc' = [pc EXCEPT ![w] = "returned"]
                 /\ result' = [result EXCEPT ![w] = Err(ENOENT)]
    /\ UNCHANGED <<holder, dirExists, fileExists, history>>
    /\ UNCHANGED captureVars

\* Line 162: create_dir_all succeeds (an existing directory is no error).
WriteMkdir(w) ==
    /\ pc[w] = "mkdir"
    /\ dirExists' = [dirExists EXCEPT ![wpath[w]] = TRUE]
    /\ pc' = [pc EXCEPT ![w] = "lock"]
    /\ UNCHANGED <<wrec, wpath, result, holder, fileExists, history>>
    /\ UNCHANGED captureVars

\* Line 162: create_dir_all fails; the error code (or -1) is returned.
WriteMkdirFail(w) ==
    /\ pc[w] = "mkdir"
    /\ \E code \in {EIO, -1} : result' = [result EXCEPT ![w] = Err(code)]
    /\ pc' = [pc EXCEPT ![w] = "returned"]
    /\ UNCHANGED <<wrec, wpath, holder, dirExists, fileExists, history>>
    /\ UNCHANGED captureVars

\* Lines 165-172: the file is opened (created if absent, not truncated) and
\* the blocking lock call returns once the lock is granted.
WriteLockAcquire(w) ==
    /\ pc[w] = "lock"
    /\ LockFree(wpath[w])
    /\ holder' = [holder EXCEPT ![wpath[w]] = HeldBy(w)]
    /\ fileExists' = [fileExists EXCEPT ![wpath[w]] = TRUE]
    /\ pc' = [pc EXCEPT ![w] = "locked"]
    /\ UNCHANGED <<wrec, wpath, result, dirExists, history>>
    /\ UNCHANGED captureVars

\* Line 172: the open or the lock call itself fails; the OS error code, or
\* EBUSY when there is none, is returned.
WriteLockFail(w) ==
    /\ pc[w] = "lock"
    /\ \E code \in {EIO, EBUSY}, created \in BOOLEAN :
         /\ result' = [result EXCEPT ![w] = Err(code)]
         /\ fileExists' = [fileExists EXCEPT
                              ![wpath[w]] = fileExists[wpath[w]] \/ created]
    /\ pc' = [pc EXCEPT ![w] = "returned"]
    /\ UNCHANGED <<wrec, wpath, holder, dirExists, history>>
    /\ UNCHANGED captureVars

\* Lines 174-177: nothing is written; Ok(()) is returned and _lock dropped.
WriteReturn(w) ==
    /\ pc[w] = "locked"
    /\ holder' = DropLock(w)
    /\ result' = [result EXCEPT ![w] = Ok(<<>>)]
    /\ pc' = [pc EXCEPT ![w] = "returned"]
    /\ UNCHANGED <<wrec, wpath, dirExists, fileExists, history>>
    /\ UNCHANGED captureVars

\* Another process takes the advisory lock on an existing .metadata file.
ForeignAcquire(d) ==
    /\ fileExists[d]
    /\ holder[d] = Free
    /\ holder' = [holder EXCEPT ![d] = Foreign]
    /\ UNCHANGED <<pc, wrec, wpath, result, dirExists, fileExists, history>>
    /\ UNCHANGED captureVars

\* ... and may release it.
ForeignRelease(d) ==
    /\ holder[d] = Foreign
    /\ holder' = [holder EXCEPT ![d] = Free]
    /\ UNCHANGED <<pc, wrec, wpath, result, dirExists, fileExists, history>>
    /\ UNCHANGED captureVars

WriteInit ==
    /\ pc = [w \in Writers |-> "idle"]
    /\ wrec = [w \in Writers |-> [parent |-> <<>>, name |-> <<>>]]
    /\ wpath = [w \in Writers |-> <<>>]
    /\ result = [w \in Writers |-> NoCall]
    /\ holder = [d \in MetaDirs |-> Free]
    /\ dirExists = [d \in MetaDirs |-> FALSE]
    /\ fileExists = [d \in MetaDirs |-> FALSE]
    /\ history = [d \in MetaDirs |-> <<>>]

(***************************************************************************)
(* Specifications.                                                         *)
(***************************************************************************)
Init == CaptureInit /\ WriteInit

Next ==
    \/ New
    \/ ToBytes
    \/ Deserialize
    \/ Getxattr

Spec == Init /\ [][Next]_vars

WriteNext ==
    \/ \E w \in Writers : WriteCall(w)
    \/ \E w \in Writers : WriteMkdir(w)
    \/ \E w \in Writers : WriteMkdirFail(w)
    \/ \E w \in Writers : WriteLockAcquire(w)
    \/ \E w \in Writers : WriteLockFail(w)
    \/ \E w \in Writers : WriteReturn(w)
    \/ \E d \in MetaDirs : ForeignAcquire(d)
    \/ \E d \in MetaDirs : ForeignRelease(d)

WriteSpec == Init /\ [][WriteNext]_vars

\* A running caller takes its next step; nothing obliges the environment to
\* fail a call or a foreign holder to release.
FairWriteSpec ==
    /\ WriteSpec
    /\ \A w \in Writers : WF_vars(WriteMkdir(w))
    /\ \A w \in Writers : WF_vars(WriteLockAcquire(w))
    /\ \A w \in Writers : WF_vars(WriteReturn(w))

(***************************************************************************)
(* Properties.                                                             *)
(***************************************************************************)

C2_Redacted ==
    /\ newOut.kind = "ok" =>
          /\ newOut.v.owner.passwd = Placeholder
          /\ newOut.v.group.passwd = Placeholder
    /\ bytesOut.kind = "ok" =>
          /\ bytesOut.v.owner.passwd = Placeholder
          /\ bytesOut.v.group.passwd = Placeholder

\* The identity database returned real credentials and the record was encoded.
C2_Witness ==
    /\ bytesOut.kind = "ok"
    /\ newIn.user.kind = "ok"
    /\ newIn.user.v.passwd = <<36, 54>>
    /\ newIn.group.kind = "ok"
    /\ newIn.group.v.passwd = <<36, 54>>

C4_XattrsPerName ==
    (newOut.kind = "ok" /\ newIn.user.kind = "ok" /\ newIn.group.kind = "ok") =>
        /\ newOut.v.xattrs.some <=> newIn.attrs1 # <<>>
        /\ newOut.v.xattrs.some =>
              /\ Len(newOut.v.xattrs.v) = Len(newIn.attrs2)
              /\ \A i \in 1..Len(newIn.attrs2) :
                    newOut.v.xattrs.v[i][1] = newIn.attrs2[i][1]

\* C5: when the owner uid (the group gid) has no identity record, new returns
\* Ok with an owner (a group) named "unknown" that keeps the numeric id and
\* has its other fields empty.  Stated where nothing else in the capture can
\* fail: the other identity resolves and the entry has no attributes.
C5_IdentityMiss ==
    /\ ( /\ newOut.kind # "none"
         /\ newIn.resolve.kind = "ok" /\ newIn.stat.kind = "ok"
         /\ newIn.user.kind = "miss" /\ newIn.group.kind = "ok"
         /\ newIn.attrs1 = <<>> )
       => /\ newOut.kind = "ok"
          /\ newOut.v.owner.name = "unknown"
          /\ newOut.v.owner.uid = newIn.stat.v.st_uid
          /\ newOut.v.owner.gecos = <<>>
          /\ newOut.v.owner.dir = <<>>
          /\ newOut.v.owner.shell = <<>>
    /\ ( /\ newOut.kind # "none"
         /\ newIn.resolve.kind = "ok" /\ newIn.stat.kind = "ok"
         /\ newIn.user.kind = "ok" /\ newIn.group.kind = "miss"
         /\ newIn.attrs1 = <<>> )
       => /\ newOut.kind = "ok"
          /\ newOut.v.group.name = "unknown"
          /\ newOut.v.group.gid = newIn.stat.v.st_gid
          /\ newOut.v.group.mem = <<>>

\* C6: new fails exactly when path resolution or stat fails; no identity
\* lookup outcome and no extended-attribute outcome fails or aborts it.
C6_OnlyResolveAndStatFatal ==
    newOut.kind # "none" =>
        /\ newOut.kind # "abort"
        /\ newOut.kind = "err" <=>
              (newIn.resolve.kind = "err" \/ newIn.stat.kind = "err")

\* C7: a write call that has returned, with Ok or with an error, holds no
\* lock.
C7_ReleasedOnReturn ==
    \A w \in Writers :
        pc[w] = "returned" => \A d \in MetaDirs : holder[d] # HeldBy(w)

\* A call returned Ok and a second call for the same directory then got the
\* lock.
C7_Witness ==
    \E a, b \in Writers :
        /\ a # b
        /\ pc[a] = "returned"
        /\ result[a].kind = "ok"
        /\ pc[b] = "locked"
        /\ wpath[b] = wpath[a]

\* C8: after write returns Ok the history of the record's path is not empty
\* and its newest entry is the record written.
C8_PersistedOnOk ==
    \A w \in Writers :
        (pc[w] = "returned" /\ result[w].kind = "ok") =>
            /\ history[wpath[w]] # <<>>
            /\ history[wpath[w]][Len(history[wpath[w]])] = wrec[w]

\* The call of w waits in FileLock::lock for a lock a foreign process holds.
BlockedOnForeign(w) ==
    IF pc[w] = "lock" THEN holder[wpath[w]] = Foreign ELSE FALSE

\* C9: a call waiting for a lock that somebody else keeps holding returns
\* (with a busy error) instead of waiting forever.
C9_NeverBlocksForever ==
    \A w \in Writers : BlockedOnForeign(w) ~> ~BlockedOnForeign(w)

\* C10: the value getxattr returns, and every value stored in a captured
\* pair, is the attribute's complete raw value.
C10_CompleteValue ==
    /\ getOut.kind = "ok" => getOut.v = AttrValue(getIn.attrs, getIn.name)
    /\ (newOut.kind = "ok" /\ newOut.v.xattrs.some) =>
          \A i \in 1..Len(newOut.v.xattrs.v) :
              newOut.v.xattrs.v[i][2] =
                  AttrValue(newIn.attrs2, newOut.v.xattrs.v[i][1])

====
